---- MODULE Spec2Model ----
(***************************************************************************)
(* The randomized, validator-guided search of MySolverImpl._solve          *)
(* (src/my_solver.py), specification Spec, and the status mapping of the   *)
(* BFGP++ wrapper (src/up_bfgp/bfgp.py), specification BfgpSpec.           *)
(*                                                                         *)
(* One call of _solve is one process whose position is pc:                 *)
(*   "start"    before grounding                      (lines 51-68)        *)
(*   "loop"     head of `while True`                  (lines 69-71)        *)
(*   "validate" after the append, before pv.validate  (line 82)            *)
(*   "lift"     after a truthy validation result      (lines 83-89)        *)
(*   "count"    before `counter += 1`                 (lines 98-100)       *)
(*   "done"     returned or raised                                         *)
(***************************************************************************)
EXTENDS Integers, Sequences, FiniteSets, TLC

\* ------------------------------------------------------------------ bounds

\* Largest max_tries option enumerated.
MaxBudget == 3

\* Cap on the number of loop iterations explored (the loop itself is unbounded).
MaxIters == 5

\* random.random() is a float in [0,1); it is modelled on the grid k/Den.
Den == 2

\* Consecutive solve calls made on one BFGP++ planner instance.
MaxSolves == 3

\* ------------------------------------------------------------ input domains

\* Python's None for an optional integer: the empty tuple; an integer n is <<n>>.
None == << >>
Some(n) == << n >>
ValueOf(opt) == opt[1]

\* The `None` plan of a result that carries no plan.
NoPlan == [present |-> FALSE, actions |-> << >>]
SomePlan(s) == [present |-> TRUE, actions |-> s]

\* Grounded actions a problem may have.
Actions == {"A", "B"}

\* Values of random.random(): numerators k of k/Den, 0 <= k/Den < 1.
RandomDraws == 0 .. (Den - 1)

\* Values of the restart_probability option, as numerators over Den:
\* -1/Den (negative), 0, ..., 1 (= Den/Den) and (Den+1)/Den (> 1).
RestartProbabilities == (-1) .. (Den + 1)

\* Values of the max_tries option.
MaxTriesOptions == {None} \cup { Some(n) : n \in 0 .. MaxBudget }

\* Diagnostic messages of the plan validator.
GoalsMsg == "Goals of the problem are not satisfied"
PrecondMsg == "Preconditions of the action instance are not satisfied"
OtherMsg == "Plan could not be simulated"

\* Mutant of ContainsGoals: the test is inverted.
ContainsGoalsInverted(einfo) == einfo # GoalsMsg

\* `'Goals' in einfo`
ContainsGoals(einfo) == einfo = GoalsMsg

\* What one pv.validate call can produce: an exception, a truthy result, or a
\* falsy result carrying zero or one log message.
ValidatorOutcomes ==
    { [raised |-> TRUE, ok |-> FALSE, log_messages |-> <<>>],
      [raised |-> FALSE, ok |-> TRUE, log_messages |-> <<>>] }
    \cup { [raised |-> FALSE, ok |-> FALSE, log_messages |-> l] :
             l \in {<<>>, <<GoalsMsg>>, <<PrecondMsg>>, <<OtherMsg>>} }

\* The verdict a validator outcome stands for: Valid, Invalid(GoalNotSatisfied),
\* Invalid(ApplicabilityFailure), an Invalid result that cannot be classified
\* (no message, or a message of neither kind), or an error of the validator.
Verdict(res) ==
    IF res.raised THEN "OracleError"
    ELSE IF res.ok THEN "Valid"
    ELSE IF res.log_messages = << >> THEN "Unclassified"
    ELSE IF res.log_messages[1] = GoalsMsg THEN "GoalNotSatisfied"
    ELSE IF res.log_messages[1] = PrecondMsg THEN "ApplicabilityFailure"
    ELSE "Unclassified"

\* lastRes and lastSanity before any validation.
NoResult == [raised |-> FALSE, ok |-> FALSE, log_messages |-> <<"no query yet">>]

\* ------------------------------------------------------------------- state

VARIABLES
    max_tries,            \* self.max_tries
    restart_probability,  \* self.restart_probability (numerator over Den)
    actions,              \* list(grounded_problem.instantaneous_actions)
    plan,                 \* the candidate plan (grounded action instances)
    counter,              \* the try counter
    pc,                   \* position in _solve
    status,               \* PlanGenerationResultStatus returned, or "NONE"
    result_plan,          \* plan of the returned PlanGenerationResult
    error,                \* exception that left _solve, or "NONE"
    iters,                \* history: loop iterations started (= random draws)
    restarts,             \* history: iterations that took the restart branch
    queries,              \* history: pv.validate calls on the grounded problem
    checks,               \* history: evaluations of the budget test (line 99)
    lastQuery,            \* history: plan passed to the last grounded validate
    lastRes,              \* history: outcome of the last grounded validate
    verdictsSeen,         \* history: verdicts of all grounded validates so far
    judged,               \* history: the pairs << sequence, verdict >> so far
    lifts,                \* history: calls of plan.replace_action_instances
    lastSanity,           \* history: outcome of the validate of the lifted plan
    solves                \* BFGP++ wrapper: the solve calls made on one planner

vars == << max_tries, restart_probability, actions, plan, counter, pc, status,
           result_plan, error, iters, restarts, queries, checks, lastQuery,
           lastRes, verdictsSeen, judged, lifts, lastSanity, solves >>

config == << max_tries, restart_probability >>
history == << iters, restarts, queries, checks, lastQuery, lastRes >>

\* What the loop head, the append and the counting leave alone.
lifting == << verdictsSeen, judged, lifts, lastSanity >>

\* ---------------------------------------------------------------- helpers

\* Mutant of Pop: pop(0), the first element is removed instead of the last.
PopFirst(s) == SubSeq(s, 2, Len(s))

\* plan.actions.pop()
Pop(s) == SubSeq(s, 1, Len(s) - 1)

\* grounding_result.map_back_action_instance: the lifted action instance of a
\* grounded action (a schema with its parameters), not the grounded action.
map_back_action_instance(a) == [action |-> "lifted", of |-> a]

\* plan.replace_action_instances(grounding_result.map_back_action_instance)
replace_action_instances(s) == [i \in DOMAIN s |-> map_back_action_instance(s[i])]

\* Mutant of Truthy: the result object is tested for presence, not validity.
TruthyAnyResult(res) == TRUE

\* `if res:` -- truthiness of a ValidationResult
Truthy(res) == res.ok

\* `random.random() < self.restart_probability`
TakesRestart(r, p) == r < p

\* Mutant of BudgetSpent: the None test is inverted into a disjunct.
BudgetSpentIgnoresNone(c, mt) == mt = None \/ c >= ValueOf(mt)

\* Mutant of BudgetSpent: strict comparison (one try too many).
BudgetSpentStrict(c, mt) == mt # None /\ c > ValueOf(mt)

\* `self.max_tries is not None and counter >= self.max_tries`
BudgetSpent(c, mt) == mt # None /\ c >= ValueOf(mt)

\* _solve leaves by an exception
Raise(e) ==
    /\ pc' = "done"
    /\ error' = e
    /\ UNCHANGED << status, result_plan >>

\* ------------------------------------------------------------------ actions

\* MySolverImpl.__init__: the options are stored as given.
Init ==
    /\ max_tries \in MaxTriesOptions
    /\ restart_probability \in RestartProbabilities
    /\ actions = {}
    /\ plan = << >>
    /\ counter = 0
    /\ pc = "start"
    /\ status = "NONE"
    /\ result_plan = NoPlan
    /\ error = "NONE"
    /\ iters = 0
    /\ restarts = 0
    /\ queries = 0
    /\ checks = 0
    /\ lastQuery = << >>
    /\ lastRes = NoResult
    /\ verdictsSeen = {}
    /\ judged = {}
    /\ lifts = 0
    /\ lastSanity = NoResult
    /\ solves = << >>

\* Grounding, the action list, the empty plan, counter = 0.
Ground ==
    /\ pc = "start"
    /\ \E pool \in SUBSET Actions : actions' = pool
    /\ plan' = << >>
    /\ counter' = 0
    /\ pc' = "loop"
    /\ UNCHANGED << config, status, result_plan, error, history, lifting,
                    solves >>

\* Mutant of Restart: after the reset, control falls through to the validation
\* and the counting below it instead of going back to the loop head.
RestartFallsThrough ==
    /\ pc = "loop"
    /\ iters < MaxIters
    /\ \E r \in RandomDraws : TakesRestart(r, restart_probability)
    /\ plan' = << >>
    /\ iters' = iters + 1
    /\ restarts' = restarts + 1
    /\ pc' = "validate"
    /\ UNCHANGED << config, actions, counter, status, result_plan, error,
                    queries, checks, lastQuery, lastRes, lifting, solves >>

\* The restart branch of one iteration.
Restart ==
    /\ pc = "loop"
    /\ iters < MaxIters
    /\ \E r \in RandomDraws : TakesRestart(r, restart_probability)
    /\ plan' = << >>
    /\ iters' = iters + 1
    /\ restarts' = restarts + 1
    /\ pc' = "loop"
    /\ UNCHANGED << config, actions, counter, status, result_plan, error,
                    queries, checks, lastQuery, lastRes, lifting, solves >>

\* Mutant of Select: the action is drawn from all actions of the problem,
\* not from the list computed before the loop.
SelectOutsidePool ==
    /\ pc = "loop"
    /\ iters < MaxIters
    /\ \E r \in RandomDraws : ~TakesRestart(r, restart_probability)
    /\ iters' = iters + 1
    /\ IF actions = {}
         THEN /\ Raise("IndexError")
              /\ UNCHANGED plan
         ELSE /\ \E a \in Actions : plan' = Append(plan, a)
              /\ pc' = "validate"
              /\ UNCHANGED << status, result_plan, error >>
    /\ UNCHANGED << config, actions, counter, restarts, queries, checks,
                    lastQuery, lastRes, lifting, solves >>

\* The else branch up to the append; random.choice raises on an empty list.
Select ==
    /\ pc = "loop"
    /\ iters < MaxIters
    /\ \E r \in RandomDraws : ~TakesRestart(r, restart_probability)
    /\ iters' = iters + 1
    /\ IF actions = {}
         THEN /\ Raise("IndexError")
              /\ UNCHANGED plan
         ELSE /\ \E a \in actions : plan' = Append(plan, a)
              /\ pc' = "validate"
              /\ UNCHANGED << status, result_plan, error >>
    /\ UNCHANGED << config, actions, counter, restarts, queries, checks,
                    lastQuery, lastRes, lifting, solves >>

\* Mutant of Validate: an exception of the validator is caught and the attempt
\* is treated as a failed one (pop, count, go on).
ValidateSwallowsError ==
    /\ pc = "validate"
    /\ \E res \in ValidatorOutcomes :
         /\ lastRes' = res
         /\ lastQuery' = plan
         /\ queries' = queries + 1
         /\ verdictsSeen' = verdictsSeen \cup {Verdict(res)}
         /\ judged' = judged \cup {<< plan, Verdict(res) >>}
         /\ IF res.raised
              THEN /\ plan' = Pop(plan)
                   /\ pc' = "count"
                   /\ UNCHANGED << status, result_plan, error >>
              ELSE IF Truthy(res)
                THEN /\ pc' = "lift"
                     /\ UNCHANGED << plan, status, result_plan, error >>
                ELSE IF res.log_messages = << >>
                  THEN Raise("IndexError") /\ UNCHANGED plan
                  ELSE /\ plan' = IF ~ContainsGoals(res.log_messages[1])
                                    THEN Pop(plan) ELSE plan
                       /\ pc' = "count"
                       /\ UNCHANGED << status, result_plan, error >>
    /\ UNCHANGED << config, actions, counter, iters, restarts, checks, lifts,
                    lastSanity, solves >>

\* pv.validate(grounded_problem, plan) and the reaction to its result.
Validate ==
    /\ pc = "validate"
    /\ \E res \in ValidatorOutcomes :
         /\ lastRes' = res
         /\ lastQuery' = plan
         /\ queries' = queries + 1
         /\ verdictsSeen' = verdictsSeen \cup {Verdict(res)}
         /\ judged' = judged \cup {<< plan, Verdict(res) >>}
         /\ IF res.raised
              THEN Raise("ValidatorError") /\ UNCHANGED plan
              ELSE IF Truthy(res)
                THEN /\ pc' = "lift"
                     /\ UNCHANGED << plan, status, result_plan, error >>
                ELSE IF res.log_messages = << >>
                  THEN Raise("IndexError") /\ UNCHANGED plan
                  ELSE /\ plan' = IF ~ContainsGoals(res.log_messages[1])
                                    THEN Pop(plan) ELSE plan
                       /\ pc' = "count"
                       /\ UNCHANGED << status, result_plan, error >>
    /\ UNCHANGED << config, actions, counter, iters, restarts, checks, lifts,
                    lastSanity, solves >>

\* Mutant of Lift: the sanity check is not enforced (its result is dropped).
LiftUnchecked ==
    /\ pc = "lift"
    /\ lifts' = lifts + 1
    /\ \E res \in ValidatorOutcomes :
         /\ lastSanity' = res
         /\ IF res.raised
              THEN Raise("ValidatorError")
              ELSE /\ status' = "SOLVED_SATISFICING"
                   /\ result_plan' = SomePlan(replace_action_instances(plan))
                   /\ pc' = "done"
                   /\ UNCHANGED error
    /\ UNCHANGED << config, actions, plan, counter, history, verdictsSeen,
                    judged, solves >>

\* Lifting, the sanity check pv.validate(problem, resplan) under `assert`, and
\* the return.
Lift ==
    /\ pc = "lift"
    /\ lifts' = lifts + 1
    /\ \E res \in ValidatorOutcomes :
         /\ lastSanity' = res
         /\ IF res.raised
              THEN Raise("ValidatorError")
              ELSE IF Truthy(res)
                THEN /\ status' = "SOLVED_SATISFICING"
                     /\ result_plan' = SomePlan(replace_action_instances(plan))
                     /\ pc' = "done"
                     /\ UNCHANGED error
                ELSE Raise("AssertionError")
    /\ UNCHANGED << config, actions, plan, counter, history, verdictsSeen,
                    judged, solves >>

\* counter += 1 and the budget test.
Count ==
    /\ pc = "count"
    /\ counter' = counter + 1
    /\ checks' = checks + 1
    /\ IF BudgetSpent(counter', max_tries)
         THEN /\ status' = "TIMEOUT"
              /\ result_plan' = NoPlan
              /\ pc' = "done"
         ELSE /\ pc' = "loop"
              /\ UNCHANGED << status, result_plan >>
    /\ UNCHANGED << config, actions, plan, error, iters, restarts, queries,
                    lastQuery, lastRes, lifting, solves >>

Next == Ground \/ Restart \/ Select \/ Validate \/ Lift \/ Count

Spec == Init /\ [][Next]_vars

\* --------------------------------------------------------- BFGP++ wrapper

\* Return values of the external solver process.
Retvals == {-1, 0, 1}

\* What the wrapper hands to _result_status as the plan: None (no plan parsed),
\* or a parsed plan, possibly empty.
BfgpPlans == {NoPlan, SomePlan(<< >>), SomePlan(<< "pick" >>)}

\* Mutant of result_status: the plan is looked at before the return value.
result_status_plan_first(plan_, retval) ==
    IF ~plan_.present THEN "UNSOLVABLE_PROVEN"
    ELSE IF retval # 0 THEN "INTERNAL_ERROR"
    ELSE "SOLVED_SATISFICING"

\* BestFirstGeneralizedPlanner._result_status
result_status(plan_, retval) ==
    IF retval # 0 THEN "INTERNAL_ERROR"
    ELSE IF ~plan_.present THEN "UNSOLVABLE_PROVEN"
    ELSE "SOLVED_SATISFICING"

\* A planner instance on which no solve was made; the search of MySolverImpl
\* is not running.
BfgpInit ==
    /\ max_tries = None
    /\ restart_probability = 0
    /\ actions = {}
    /\ plan = << >>
    /\ counter = 0
    /\ pc = "start"
    /\ status = "NONE"
    /\ result_plan = NoPlan
    /\ error = "NONE"
    /\ iters = 0
    /\ restarts = 0
    /\ queries = 0
    /\ checks = 0
    /\ lastQuery = << >>
    /\ lastRes = NoResult
    /\ verdictsSeen = {}
    /\ judged = {}
    /\ lifts = 0
    /\ lastSanity = NoResult
    /\ solves = << >>

\* One solve call: the external solver ends with retval, a plan was parsed or
\* not, and the status reported is _result_status of the two.
BfgpSolve ==
    /\ Len(solves) < MaxSolves
    /\ \E retval \in Retvals, p \in BfgpPlans :
         solves' = Append(solves, [retval |-> retval, plan |-> p,
                                   status |-> result_status(p, retval)])
    /\ UNCHANGED << config, actions, plan, counter, pc, status, result_plan,
                    error, history, lifting >>

BfgpNext == BfgpSolve

BfgpSpec == BfgpInit /\ [][BfgpNext]_vars

\* ------------------------------------------------------- vocabulary of claims

Found == status = "SOLVED_SATISFICING"
Exhausted == status = "TIMEOUT"
BudgetSet == max_tries # None
Budget == ValueOf(max_tries)

\* The inputs the contract of search admits: a restart probability in [0,1)
\* and a non-empty action list.
ValidProbability == restart_probability \in 0 .. (Den - 1)
NonEmptyPool == pc # "start" /\ actions # {}

IsPrefix(s, t) == Len(s) <= Len(t) /\ s = SubSeq(t, 1, Len(s))

\* --------------------------------------------------------------------- C1

\* C1: whenever _solve returns SOLVED_SATISFICING, the last validation of the
\* grounded plan in that call was Valid, the candidate is still the sequence
\* that validation saw (no append, pop or restart in between), and the returned
\* plan is that sequence, action by action, lifted.
C1_FoundIsLastValidated ==
    Found =>
      /\ Verdict(lastRes) = "Valid"
      /\ plan = lastQuery
      /\ result_plan.present
      /\ Len(result_plan.actions) = Len(lastQuery)
      /\ \A i \in 1 .. Len(lastQuery) : result_plan.actions[i].of = lastQuery[i]

\* A plan of two actions found after a restart and a backtrack-free extension.
C1_Witness ==
    Found /\ Len(lastQuery) >= 2 /\ restarts >= 1 /\ queries >= 3

\* --------------------------------------------------------------------- C2

\* C2: for admitted inputs, when max_tries is set, the number of validations of the grounded plan
\* made before a SOLVED_SATISFICING result is at most max_tries; for
\* max_tries = 0 no run returns SOLVED_SATISFICING.
C2_FoundWithinBudget ==
    (ValidProbability /\ Found /\ BudgetSet) => queries <= Budget

\* --------------------------------------------------------------------- C3

\* C3: TIMEOUT (plan None) is returned only when max_tries is set and the try
\* counter has reached it, and no validation was Valid; a Valid verdict is
\* never followed by another try. With max_tries absent TIMEOUT is never
\* returned.
C3_ExhaustedOnlyWhenBudgetSpent ==
    /\ Exhausted =>
         /\ BudgetSet
         /\ counter >= Budget
         /\ result_plan = NoPlan
         /\ error = "NONE"
         /\ Verdict(lastRes) # "Valid"
    /\ Verdict(lastRes) = "Valid" => pc \in {"lift", "done"}

\* The budget of three tries is spent on three invalid candidates.
C3_Witness ==
    Exhausted /\ BudgetSet /\ Budget = MaxBudget /\ counter = Budget

\* --------------------------------------------------------------------- C4

\* C4: with a non-empty action list and max_tries = 0, no validation happens
\* before the first budget test, and a call that returns returns TIMEOUT.
C4_ZeroBudgetNoQuery ==
    (ValidProbability /\ NonEmptyPool /\ max_tries = Some(0) /\ error = "NONE") =>
      /\ checks = 0 => queries = 0
      /\ pc = "done" => Exhausted

\* --------------------------------------------------------------------- C5

C8_FailedActionRemoved ==
    (pc \in {"count", "loop"} /\ Verdict(lastRes) = "ApplicabilityFailure") =>
      /\ Len(plan) < Len(lastQuery)
      /\ IsPrefix(plan, lastQuery)
      /\ pc = "count" => (plan = Pop(lastQuery) /\ counter = queries - 1)

\* A backtrack from a candidate of three actions.
C8_Witness ==
    /\ pc = "count"
    /\ Verdict(lastRes) = "ApplicabilityFailure"
    /\ Len(lastQuery) >= 3
    /\ Len(plan) = Len(lastQuery) - 1

\* --------------------------------------------------------------------- C9

\* C9: with an empty action list the call fails with a ConfigurationError
\* before the loop: no random draw, no validation, no counter increment, and
\* neither SOLVED_SATISFICING nor TIMEOUT.
C9_EmptyPoolRejected ==
    (ValidProbability /\ pc # "start" /\ actions = {}) =>
      /\ pc = "done"
      /\ error = "ConfigurationError"
      /\ iters = 0
      /\ queries = 0
      /\ counter = 0
      /\ ~Found
      /\ ~Exhausted

\* -------------------------------------------------------------------- C10

\* C10: a restart_probability outside [0,1) (negative, or >= 1) is rejected with a
\* ConfigurationError before the loop, which is never entered with it.
C10_BadProbabilityRejected ==
    (~ValidProbability /\ NonEmptyPool) =>
      \/ pc = "start"
      \/ pc = "done" /\ error = "ConfigurationError" /\ iters = 0

\* -------------------------------------------------------------------- C11

\* The validate of the lifted plan against the original problem returned a
\* falsy result.
SanityFailed == lifts > 0 /\ ~lastSanity.raised /\ ~lastSanity.ok

\* C11: when, after a Valid verdict on the grounded plan, the validation of the
\* lifted plan against the original problem fails, the call returns neither
\* SOLVED_SATISFICING nor TIMEOUT and no plan: it ends with an error
\* (AssertionError).
C11_FailedSanityIsError ==
    SanityFailed =>
      /\ Verdict(lastRes) = "Valid"
      /\ pc = "done"
      /\ error = "AssertionError"
      /\ ~Found
      /\ ~Exhausted
      /\ result_plan = NoPlan

\* The sanity check fails on a grounded plan of two actions.
C11_Witness ==
    SanityFailed /\ Len(lastQuery) >= 2 /\ error # "NONE"

\* -------------------------------------------------------------------- C12

\* C12: an exception raised by a validate call ends the call at once with an
\* error that is neither SOLVED_SATISFICING nor TIMEOUT. After it the candidate
\* is still the sequence that was submitted (no append, pop or restart), the
\* try counter was not incremented for that attempt, and no further iteration
\* or validation was made.
C12_OracleErrorAborts ==
    /\ Verdict(lastRes) = "OracleError" =>
         /\ pc = "done"
         /\ error = "ValidatorError"
         /\ ~Found
         /\ ~Exhausted
         /\ plan = lastQuery
         /\ counter = queries - 1
         /\ checks = counter
         /\ iters - restarts = queries
         /\ lifts = 0
    /\ lastSanity.raised =>
         /\ pc = "done"
         /\ error = "ValidatorError"
         /\ ~Found
         /\ ~Exhausted
         /\ plan = lastQuery
         /\ counter = queries - 1
         /\ iters - restarts = queries
         /\ lifts = 1

\* The validator raises on the third attempt, after a restart.
C12_Witness ==
    /\ Verdict(lastRes) = "OracleError"
    /\ queries >= 3
    /\ restarts >= 1
    /\ Len(lastQuery) >= 2

\* -------------------------------------------------------------------- C13

\* C13: a call that returns SOLVED_SATISFICING lifted the plan exactly once,
\* after the Valid verdict and over the whole validated sequence; a call that
\* returns TIMEOUT never lifted. No lifting precedes a Valid verdict.
C13_LiftedOnceOnSuccess ==
    /\ Found =>
         /\ lifts = 1
         /\ Verdict(lastRes) = "Valid"
         /\ Len(result_plan.actions) = Len(lastQuery)
    /\ Exhausted => lifts = 0
    /\ lifts > 0 => (lifts = 1 /\ Verdict(lastRes) = "Valid" /\ pc = "done")

\* A plan found on the third attempt and lifted.
C13_Witness ==
    Found /\ lifts = 1 /\ counter >= 2 /\ Len(result_plan.actions) >= 1

\* -------------------------------------------------------------------- C14

\* Every validation so far ended in an applicability failure.
OnlyApplicabilityFailures == verdictsSeen \subseteq {"ApplicabilityFailure"}

\* C14: when every validation of a non-empty sequence is an applicability
\* failure, a call with a non-empty action list and max_tries = n >= 1 returns
\* nothing but TIMEOUT, and returns it after exactly n tries (n validations);
\* the candidate is empty at every budget test and loop head, and the loop
\* head is not reached again after the n-th attempt.
C14_NeverApplicableExhausts ==
    (NonEmptyPool /\ BudgetSet /\ Budget >= 1 /\ OnlyApplicabilityFailures) =>
      /\ pc \in {"count", "loop"} => plan = << >>
      /\ pc = "validate" => Len(plan) = 1
      /\ counter <= Budget
      /\ error = "NONE"
      /\ ~Found
      /\ pc = "done" => (Exhausted /\ counter = Budget /\ queries = Budget)
      /\ queries = Budget => pc \in {"count", "done"}

\* The spec's scenario at its bound here: pool {A}, n = MaxBudget, no restart.
C14_Witness ==
    /\ actions = {"A"}
    /\ BudgetSet /\ Budget = MaxBudget
    /\ restart_probability = 0
    /\ OnlyApplicabilityFailures
    /\ Exhausted
    /\ counter = MaxBudget
    /\ plan = << >>

\* -------------------------------------------------------------------- C15

\* Every validation so far said GoalNotSatisfied, except possibly the last,
\* which said Valid.
GoalThenValid == verdictsSeen \subseteq {"GoalNotSatisfied", "Valid"}

\* C15: with restart_probability = 0, when the validator says GoalNotSatisfied
\* on every proper prefix of the selected sequence s1..sk and Valid on the whole
\* of it, the candidate is kept and extended at every attempt (after j attempts
\* it is s1..sj), and with max_tries absent or >= k the call returns
\* SOLVED_SATISFICING with the lifting of s1..sk after exactly k validations,
\* the try counter at k - 1.
C15_ForcedSequenceFound ==
    (restart_probability = 0 /\ NonEmptyPool /\ GoalThenValid) =>
      /\ restarts = 0
      /\ pc = "loop" => (Len(plan) = counter /\ queries = counter)
      /\ pc = "validate" => (Len(plan) = counter + 1 /\ queries = counter)
      /\ pc = "count" => (plan = lastQuery /\ Len(plan) = queries)
      /\ Verdict(lastRes) = "Valid" =>
           /\ plan = lastQuery
           /\ Len(lastQuery) = queries
           /\ counter = queries - 1
           /\ (BudgetSet /\ Budget >= 1) => queries <= Budget
      /\ (pc = "done" /\ "Valid" \in verdictsSeen /\ lastSanity.ok) =>
           /\ Found
           /\ Len(result_plan.actions) = queries
           /\ \A i \in 1 .. queries : result_plan.actions[i].of = plan[i]
      /\ (pc = "done" /\ (~BudgetSet \/ Budget > counter)) =>
           "Valid" \in verdictsSeen

\* The spec's scenario: A then B selected, [A] not yet at the goal, [A, B] valid,
\* max_tries = 2.
C15_Witness ==
    /\ restart_probability = 0
    /\ max_tries = Some(2)
    /\ Found
    /\ lastQuery = << "A", "B" >>
    /\ verdictsSeen = {"GoalNotSatisfied", "Valid"}
    /\ queries = 2

\* -------------------------------------------------------------------- C16

\* Every draw so far took the restart branch.
AlwaysRestarted == pc # "start" /\ restarts = iters

C17_StatusFromRetvalAndPlan ==
    \A i \in DOMAIN solves :
      /\ solves[i].status = "SOLVED_SATISFICING"
           <=> (solves[i].retval = 0 /\ solves[i].plan.present)
      /\ solves[i].retval # 0 => solves[i].status = "INTERNAL_ERROR"
      /\ (solves[i].retval = 0 /\ ~solves[i].plan.present)
           => solves[i].status = "UNSOLVABLE_PROVEN"
      /\ \A j \in DOMAIN solves :
           (solves[j].retval = solves[i].retval /\ solves[j].plan = solves[i].plan)
             => solves[j].status = solves[i].status

\* Three solves on one planner: a failed solver run that left a plan, a run
\* without a plan, then a solved instance.
C17_Witness ==
    /\ Len(solves) = 3
    /\ solves[1].retval # 0 /\ solves[1].plan.present
    /\ solves[1].status = "INTERNAL_ERROR"
    /\ solves[2].status = "UNSOLVABLE_PROVEN"
    /\ solves[3].status = "SOLVED_SATISFICING"

\* -------------------------------------------------------------------- C18

\* A sequence without its last element.
Front(s) == SubSeq(s, 1, Len(s) - 1)

\* The validator results on which the search backtracks: an invalid result
\* whose message does not speak of the goals.
Backtracks(res) == Verdict(res) \in {"ApplicabilityFailure", "Unclassified"}

\* C18: an iteration that appends an action extends the candidate by exactly
\* that one element, and the pop after an applicability failure gives back the
\* candidate the iteration started with. With restart_probability = 0 the
\* candidate never gets shorter by two or more elements in one step, and it
\* gets shorter only by the pop of its last element in the step that received
\* the applicability failure.
C18_BacktrackUndoesLastAppend ==
    [][ /\ (pc = "loop" /\ pc' = "validate") =>
             (Len(plan') = Len(plan) + 1 /\ Front(plan') = plan)
        /\ (pc = "validate" /\ pc' = "count" /\ Backtracks(lastRes')) =>
             (plan' = Front(plan) /\ Len(plan) >= 1)
        /\ (restart_probability = 0 /\ Len(plan') < Len(plan)) =>
             /\ Len(plan') = Len(plan) - 1
             /\ plan' = Front(plan)
             /\ pc = "validate"
             /\ Backtracks(lastRes')
      ]_vars

\* Without restarts, a backtrack from a candidate of two actions to its first.
C18_Witness ==
    /\ restart_probability = 0
    /\ pc = "count"
    /\ Verdict(lastRes) = "ApplicabilityFailure"
    /\ Len(lastQuery) = 2
    /\ plan = << lastQuery[1] >>

\* -------------------------------------------------------------------- C19

\* C19: the step that receives GoalNotSatisfied leaves the candidate as it was
\* submitted, the counting leaves it alone too, and the next iteration that is
\* not a restart appends one action to that same sequence, which is what the
\* next validation sees.
C19_GoalFailureKeepsCandidate ==
    [][ /\ (pc = "validate" /\ Verdict(lastRes') = "GoalNotSatisfied") =>
             (pc' = "count" /\ plan' = plan /\ lastQuery' = plan)
        /\ pc = "count" => plan' = plan
        /\ (pc = "loop" /\ pc' = "validate") =>
             (Front(plan') = plan /\ plan'[Len(plan')] \in actions)
        /\ pc = "validate" => lastQuery' = plan
      ]_vars

\* The third attempt extends a candidate that twice fell short of the goal.
C19_Witness ==
    /\ pc = "validate"
    /\ Verdict(lastRes) = "GoalNotSatisfied"
    /\ Len(plan) = 3
    /\ Front(plan) = lastQuery
    /\ verdictsSeen = {"GoalNotSatisfied"}

\* -------------------------------------------------------------------- C20

\* C20: an invalid result whose failure cannot be classified, one without any
\* diagnostic message included, is treated as an applicability failure: the
\* last action is removed, no error is raised and the search goes on to the
\* counting.
C20_UnclassifiedBacktracks ==
    (queries > 0 /\ ValidProbability /\ Verdict(lastRes) = "Unclassified") =>
      /\ error = "NONE"
      /\ pc \in {"count", "loop", "validate", "done"}
      /\ pc = "count" => plan = Front(lastQuery)
      /\ pc = "done" => (Exhausted /\ plan = Front(lastQuery))

\* ---------------------------------------------------------------------
\* The candidate at the head of the loop (lines 69-100)

\* The validator has answered as a function of the sequence so far: no
\* sequence of this call has been given two different verdicts.
DeterministicOracle ==
    \A x \in judged : \A y \in judged : x[1] = y[1] => x[2] = y[2]

\* The validator has given sequence s the verdict v in this call.
Judged(s, v) == << s, v >> \in judged

\* The loop is about to start an iteration (line 69).
AtLoopHead == pc = "loop"

\* C21: while the validator has been deterministic, at the start of every
\* iteration the plan is empty or a sequence the validator judged
\* GoalNotSatisfied earlier in this call, and it is never a sequence the
\* validator judged ApplicabilityFailure or Valid.
C21_LoopHeadCandidateIsGoalPending ==
    (AtLoopHead /\ DeterministicOracle)
        => /\ plan = << >> \/ Judged(plan, "GoalNotSatisfied")
           /\ ~Judged(plan, "ApplicabilityFailure")
           /\ ~Judged(plan, "Valid")

\* C21 witness: after a restart the validator has judged some sequence a
\* second time with the same verdict, it has rejected an extension as
\* inapplicable, and the loop starts an iteration with a non-empty plan it
\* judged GoalNotSatisfied.
C21_Witness ==
    /\ AtLoopHead
    /\ DeterministicOracle
    /\ restarts >= 1
    /\ queries > Cardinality(judged)
    /\ plan # << >>
    /\ Judged(plan, "GoalNotSatisfied")
    /\ \E x \in judged : x[2] = "ApplicabilityFailure"

\* ---------------------------------------------------------------------
\* What one call leaves alone (lines 59-100)

\* Every action instance of the plan wraps an action of the list of line 59.
PlanFromPool == \A i \in DOMAIN plan : plan[i] \in actions

\* The list of line 59 exists: grounding has run.
PoolComputed == pc # "start"

\* C22: every step of a call leaves every element of the plan a member of
\* the action list computed before the loop, leaves that list as it is once
\* it is computed, and leaves max_tries and restart_probability as they
\* were.
C22_PoolAndConfigUntouched ==
    [][ /\ PlanFromPool'
        /\ PoolComputed => actions' = actions
        /\ max_tries' = max_tries
        /\ restart_probability' = restart_probability ]_vars

\* C22 witness: a call that restarted, drew from a list that holds some but
\* not all actions of the problem, built a plan of two or more of them and
\* returned.
C22_Witness ==
    /\ pc = "done"
    /\ error = "NONE"
    /\ restarts >= 1
    /\ actions # {}
    /\ actions # Actions
    /\ Len(plan) >= 2
    /\ PlanFromPool

====
